---------------------------- MODULE Spec2Model ----------------------------
(***************************************************************************)
(* A model of pyoscope.py: the PyOscopeStatic plotter (plot, _create_axes, *)
(* _plotyt, _plotxy, clear) and the PyOscopeRealtime engine built on it    *)
(* (the background thread's run loop, _update and its per-backend update   *)
(* step, autoscale_axes, stop, close, autoscale).                          *)
(*                                                                         *)
(* Two threads act on one engine object: the foreground (the caller of     *)
(* plot, clear, autoscale, stop and close) and the engine's own thread     *)
(* (run).  Every statement of the source that reads or writes the shared   *)
(* object is a step of its thread; steps of the two threads interleave.    *)
(***************************************************************************)
EXTENDS Integers, Sequences, FiniteSets, TLC

(***************************************************************************)
(* Bounds of the model.                                                    *)
(***************************************************************************)
\* the longest list of identifiers passed as xs or ys
MaxSeries == 2
\* the largest row count the Table of the DataSource reaches
MaxRows == 2
\* the length of the in-memory array passed as an identifier
RawLen == 3
\* the history counters (stop() calls returned, close() calls) stop counting
\* here
MaxCount == 2

(***************************************************************************)
(* Values.                                                                 *)
(***************************************************************************)
\* windowsize=None (the default of _plotyt and _plotxy, and of _plotdict)
WsNone == -1

\* a lookup that falls back on the slow update step for any other backend
update_backend_or_default == {"macosx", "wxagg", "tkagg"}

\* the backends _update_plot has an update step for
update_backend == {"macosx", "wxagg"}
\* the backends plt.get_backend() names here: one of the two above, one other
Backends == {"wxagg", "tkagg"}

\* the values _create_axes accepts for sharex and sharey
share_values == {"all", "row", "col", "none"}

\* An identifier: a column of the Table by name, or an in-memory array.
ColId == [kind |-> "name", len |-> 0]
RawId == [kind |-> "raw", len |-> RawLen]
Ids == {ColId, RawId}

\* None for xs, ys (the empty list itself is not among the inputs)
None == << >>

Min(a, b) == IF a < b THEN a ELSE b

\* lists of 1..n identifiers drawn from S
ListsOf(S, n) == UNION {[1..m -> S] : m \in 1..n}


(***************************************************************************)
(* The arguments of one plot() call.  xtrans and ytrans are None ("None")  *)
(* or a bare callable ("fn").                                              *)
(***************************************************************************)
SeriesArgs(S, n) == {None} \cup ListsOf(S, n)

\* every call on columns of the Table: xs, ys None or a list, the two split
\* flags, recognised share values, callable transforms
LayoutArgs ==
    [xs : SeriesArgs({ColId}, MaxSeries), ys : SeriesArgs({ColId}, MaxSeries),
     splitx : BOOLEAN, splity : BOOLEAN, sharex : {"col"},
     xtrans : {"fn"}, ytrans : {"fn"}]

PlotOf(xs, ys, splity, sharex, trans) ==
    [xs |-> xs, ys |-> ys, splitx |-> TRUE, splity |-> splity,
     sharex |-> sharex, xtrans |-> trans, ytrans |-> trans]

\* the calls made on an engine whose thread may be running: one line against
\* the row index, two rows of x against y, and one line with no transform
EngineArgs ==
    { PlotOf(None, <<ColId>>, TRUE, "col", "fn"),
      PlotOf(<<ColId>>, <<ColId, ColId>>, TRUE, "col", "fn"),
      PlotOf(None, <<ColId>>, TRUE, "col", "None") }

\* calls that raise: an array whose length is not the column's (alone, and
\* after a pair that matches), an unrecognised share value, neither xs nor ys
FailingArgs ==
    { PlotOf(<<ColId>>, <<RawId>>, TRUE, "col", "fn"),
      PlotOf(<<RawId>>, <<RawId, ColId>>, TRUE, "col", "fn"),
      PlotOf(None, <<ColId>>, TRUE, "diag", "fn"),
      PlotOf(None, None, TRUE, "col", "fn") }

(***************************************************************************)
(* plot(): argument checking (lines 255-282).                              *)
(***************************************************************************)
\* lines 255-256
NoAxisGiven(a) == a.xs = None /\ a.ys = None

\* lines 257-264, once at least one of xs, ys is given
oneD(a) ==
    IF a.ys = None THEN TRUE
    ELSE IF a.xs = None THEN TRUE
    ELSE FALSE

\* line 258: ys = xs when ys is None
ysOf(a) == IF a.ys = None THEN a.xs ELSE a.ys

\* line 259: ytrans = xtrans when ys is None
ytransOf(a) == IF a.ys = None THEN a.xtrans ELSE a.ytrans

\* lines 266-268: a scalar (None included) becomes a one-element list
lenxs(a) == IF a.xs = None THEN 1 ELSE Len(a.xs)

\* lines 270-273, 279-282: None or a bare callable, repeated len() times
Promote(t, n) == [k \in 1..n |-> t]

(***************************************************************************)
(* plot(): the series (lines 294-327).  A column named by a string or an   *)
(* integer is looked up in self.data (whose row count is `rows`) when      *)
(* plot() runs; an array is used as it is.                                 *)
(***************************************************************************)
Resolve(id, rows) ==
    [id |-> id, len |-> IF id.kind = "raw" THEN id.len ELSE rows]

newxs(a, rows) ==
    IF oneD(a) THEN None
    ELSE [k \in 1..Len(a.xs) |-> Resolve(a.xs[k], rows)]

newys(a, rows) == [k \in 1..Len(ysOf(a)) |-> Resolve(ysOf(a)[k], rows)]

(***************************************************************************)
(* plot(): the axes grid (lines 340-347) and _create_axes (lines 97-192).  *)
(***************************************************************************)
\* a column count that forgets oneD
lenxSplitOnly(a) == IF a.splitx THEN lenxs(a) ELSE 1

lenx(a) ==
    IF ~oneD(a) THEN (IF a.splitx THEN Len(a.xs) ELSE 1)
    ELSE 1

leny(a) == IF a.splity THEN Len(ysOf(a)) ELSE 1

\* lines 118-121
ShareError(sharex) == sharex \notin share_values

\* _create_axes(nrows, ncols): nrows*ncols subplots reshaped to (nrows, ncols);
\* drawn is the set of lines on the cells, <<row, column, i, j>>
create_axes(nrows, ncols) == [rows |-> nrows, cols |-> ncols, drawn |-> {}]

\* no plot() call has created self.axes, self.lines
NoAxes == [rows |-> 0, cols |-> 0, drawn |-> {}]
NoLines == [lenx |-> 0, leny |-> 0, filled |-> {}, shown |-> {}]

\* line 351: np.empty([lenx, leny], dtype='object'); filled is the set of the
\* (i, j) that hold a line handle, and shown has <<i, j, n>> when the handle
\* at (i, j) displays n rows
EmptyLines(a) ==
    [lenx |-> lenx(a), leny |-> leny(a), filled |-> {}, shown |-> {}]

\* the handle at (i, j) is given the data of a series of n rows
Show(l, i, j, n) ==
    [l EXCEPT !.shown =
        {t \in @ : <<t[1], t[2]>> # <<i, j>>} \cup {<<i, j, n>>}]

(***************************************************************************)
(* The (i, j) index pairs in the order the loops of plot() (lines 352-377) *)
(* and of _update_plot_slow (lines 558-569) visit them.                    *)
(***************************************************************************)
Pairs(isOneD, nx, ny) ==
    IF isOneD THEN [k \in 1..ny |-> <<0, k - 1>>]
    ELSE [k \in 1..(nx * ny) |-> <<(k - 1) \div ny, (k - 1) % ny>>]

\* lines 356-357, 370-372: the cell a line is drawn on
rownum(a, j) == IF a.splity THEN j ELSE 0
colnum(a, i) == IF oneD(a) THEN 0 ELSE (IF a.splitx THEN i ELSE 0)

\* lines 360, 375: self.lines[i, j] = line is inside the array
InGrid(l, i, j) == i < l.lenx /\ j < l.leny

\* lines 432-433
LengthMismatch(x, y) == x.len # y.len

(***************************************************************************)
(* The data of one line: _plotyt (lines 381-411), _plotxy (413-453) and    *)
(* _update_line_slow (574-594).  A series is a sequence of samples.        *)
(***************************************************************************)
\* the longest series drawn
MaxLen == 3
\* the window sizes passed: None, 0, and up to one more than any series has
MaxWindow == MaxLen + 1
WindowSizes == {WsNone} \cup (0..MaxWindow)

Samples == {1, 3}
SeriesOf(n) == UNION {[1..m -> Samples] : m \in 0..n}

Max(a, b) == IF a > b THEN a ELSE b

\* Python's s[start:] for an integer start: a negative start counts from the
\* end, and a start outside the sequence is clipped to it
SliceFrom(s, start) ==
    LET n == Len(s)
        b == IF start < 0 THEN Max(start + n, 0) ELSE Min(start, n)
    IN  SubSeq(s, b + 1, n)

\* a slice that takes the last ws samples, none when ws is 0
LastSamples(s, ws) == SubSeq(s, Len(s) - ws + 1, Len(s))

\* s[-ws:], lines 408, 446, 448, 591, 592
SliceLast(s, ws) == SliceFrom(s, 0 - ws)

\* lines 399-402, 435-438, 581-584
wsOf(y, windowsize) ==
    IF windowsize = WsNone THEN Len(y) ELSE Min(Len(y), windowsize)

\* range(n), and the x values ax.plot(y) gives a line drawn from y alone
Range(n) == [k \in 1..n |-> k - 1]

\* the transforms passed by the caller, each taking a whole data set and
\* returning the transformed data set: one that acts sample by sample
\* (x -> x*10) and one that does not (x -> x - x[0]); "None" is no transform
Transforms == {"None", "scale", "baseline"}

Apply(t, s) ==
    CASE t = "scale" -> [k \in 1..Len(s) |-> 10 * s[k]]
      [] t = "baseline" -> [k \in 1..Len(s) |-> s[k] - s[1]]
      [] OTHER -> s

\* lines 405-409, 441-449: None is the identity; slice, then transform
DrawData(t, s, ws) == Apply(t, SliceLast(s, ws))

\* what the transform of DrawData is called with
DrawSeen(t, s, ws) == SliceLast(s, ws)

\* lines 589-592: the transform is called as it is (None is not callable) on
\* the whole series, and the result is sliced
Callable(t) == t # "None"
UpdateData(t, s, ws) == SliceLast(Apply(t, s), ws)

VARIABLES
    interactive,  \* self.interactive
    backend,      \* self._backend
    data,         \* self.data: the row count of the current Table
    mode,         \* self.mode
    plotdict,     \* self._plotdict
    axes,         \* self.axes
    lines,        \* self.lines
    stopped,      \* self.stopped (the threading.Event)
    closes,       \* how many times reader.close() has been called
    fgpc,         \* where the foreground is
    call,         \* the locals of the plot() call in progress
    ret,          \* the outcome of the foreground call that returned last
    pre,          \* the session as it was when the plot() call began
    stops,        \* how many stop() calls have returned
    bgpc,         \* where the engine's thread is
    tick,         \* the locals of the tick in progress, and its log
    bgerr,        \* the exception that ended run(), if any
    series,       \* the series, window size and transforms one line is drawn from
    line,         \* that line's handle: the data it displays
    cells         \* the axes cells the line is on or beside: their limits, lines

vars ==
    <<interactive, backend, data, mode, plotdict, axes, lines, stopped, closes,
      fgpc, call, ret, pre, stops, bgpc, tick, bgerr, series, line, cells>>

\* what a plot() call is meant to replace as a whole
Session == [mode |-> mode, axes |-> axes, lines |-> lines, plotdict |-> plotdict]

\* line 73-75, and the keys plot() adds (absent until then: set = FALSE)
InitPlotdict ==
    [autoscalex |-> TRUE, autoscaley |-> TRUE, windowsize |-> WsNone,
     set |-> FALSE, xs |-> None, ys |-> None, xtrans |-> << >>,
     ytrans |-> << >>, oneD |-> FALSE]

\* no plot() call is in progress, none has just raised
NoSession ==
    [mode |-> "none", axes |-> NoAxes, lines |-> NoLines,
     plotdict |-> InitPlotdict]

NoArgs == PlotOf(None, None, TRUE, "col", "fn")
NoCall ==
    [a |-> NoArgs, xs |-> None, ys |-> None, k |-> 0, xflag |-> "None",
     yflag |-> "None", name |-> "none"]
\* began is the mode when the tick began, found the mode its line 535 read
NoTick ==
    [oneD |-> FALSE, xs |-> None, ys |-> None, xtrans |-> << >>,
     ytrans |-> << >>, k |-> 0, log |-> << >>, began |-> "none",
     found |-> "unread"]

Bump(n) == Min(n + 1, MaxCount)

\* no line is followed sample by sample
NoSeries ==
    [oneD |-> TRUE, x |-> << >>, y |-> << >>, windowsize |-> WsNone,
     xtrans |-> "None", ytrans |-> "None"]
NoLine ==
    [drawn |-> FALSE, xdata |-> << >>, ydata |-> << >>, seen |-> << >>,
     first |-> << << >>, << >> >>, updated |-> FALSE, err |-> "none"]


(***************************************************************************)
(* PyOscopeRealtime.__init__ (lines 483-507).                              *)
(***************************************************************************)
\* a constructor that starts the thread whatever `interactive` is
StartsThreadAlways(i) == TRUE

\* lines 500-507: the thread is started only for an interactive engine
StartsThread(i) == i

InitObject ==
    /\ interactive \in BOOLEAN
    /\ backend \in Backends
    /\ data = 1
    /\ mode = "none"
    /\ axes = NoAxes
    /\ lines = NoLines
    /\ stopped = ~StartsThread(interactive)
    /\ closes = 0
    /\ fgpc = "idle"
    /\ call = NoCall
    /\ ret = "ok"
    /\ pre = NoSession
    /\ stops = 0
    /\ bgpc = IF StartsThread(interactive) THEN "check" ELSE "unstarted"
    /\ tick = NoTick
    /\ bgerr = "none"

\* the engine before any line is looked at sample by sample
Init ==
    /\ InitObject
    /\ plotdict = InitPlotdict
    /\ series = NoSeries
    /\ line = NoLine
    /\ cells = << >>

\* threading.Thread.isAlive(): run() has begun and has not ended
isAlive == bgpc \notin {"unstarted", "done", "raised"}

bgvars == <<bgpc, tick, bgerr, data>>
\* what no method of the engine writes once it is constructed, and the one
\* line followed sample by sample
detail == <<series, line, cells>>
engine == <<interactive, backend, detail>>

(***************************************************************************)
(* The foreground: plot() (lines 198-379).                                 *)
(***************************************************************************)
\* the call returns (err = "ok") or raises err
Return(err) ==
    /\ fgpc' = "idle"
    /\ call' = NoCall
    /\ ret' = err

\* plot() returns or raises; what the session was is kept only if it raised
PlotReturn(err, before) ==
    /\ Return(err)
    /\ pre' = IF err = "ok" THEN NoSession ELSE before

\* lines 255-338: check the arguments, look the series up, store them
PlotCall(Args) ==
    \E a \in Args :
        /\ fgpc = "idle"
        /\ IF NoAxisGiven(a)
           THEN /\ PlotReturn("ValueError", Session)
                /\ UNCHANGED plotdict
           ELSE /\ pre' = Session
                /\ plotdict' =
                     [plotdict EXCEPT !.set = TRUE,
                                      !.xs = newxs(a, data),
                                      !.ys = newys(a, data),
                                      !.xtrans = Promote(a.xtrans, lenxs(a)),
                                      !.ytrans = Promote(ytransOf(a), Len(ysOf(a))),
                                      !.oneD = oneD(a)]
                /\ call' = [NoCall EXCEPT !.a = a, !.xs = newxs(a, data),
                                           !.ys = newys(a, data), !.k = 1,
                                           !.name = "plot"]
                /\ fgpc' = "plot_axes"
                /\ UNCHANGED ret
        /\ UNCHANGED <<engine, bgvars, mode, axes, lines, stopped, closes, stops>>

\* lines 340-347: self.axes = self._create_axes(leny, lenx, sharex=sharex)
PlotAxes ==
    /\ fgpc = "plot_axes"
    /\ IF ShareError(call.a.sharex)
       THEN /\ PlotReturn("ValueError", pre)
            /\ UNCHANGED axes
       ELSE /\ axes' = create_axes(leny(call.a), lenx(call.a))
            /\ fgpc' = "plot_mode"
            /\ UNCHANGED <<call, ret, pre>>
    /\ UNCHANGED <<engine, bgvars, mode, plotdict, lines, stopped, closes,
                   stops>>

\* lines 350-351: self.mode = 'plot'; self.lines = np.empty([lenx, leny])
PlotMode ==
    /\ fgpc = "plot_mode"
    /\ mode' = "plot"
    /\ lines' = EmptyLines(call.a)
    /\ fgpc' = "plot_draw"
    /\ UNCHANGED <<engine, bgvars, plotdict, axes, stopped, closes, stops, pre,
                   call, ret>>

\* the pairs the loops of lines 352-377 visit
DrawPairs(c) ==
    Pairs(oneD(c.a), IF oneD(c.a) THEN 1 ELSE Len(c.xs), Len(c.ys))

\* one pass of the loop body, lines 353-362 or 366-377: draw the line with
\* _plotyt or _plotxy on its cell, then store it in self.lines
PlotDraw ==
    /\ fgpc = "plot_draw"
    /\ LET a == call.a
           i == DrawPairs(call)[call.k][1]
           j == DrawPairs(call)[call.k][2]
           drawn == [axes EXCEPT !.drawn =
                        @ \cup {<<rownum(a, j), colnum(a, i), i, j>>}]
       IN  IF ~oneD(a) /\ LengthMismatch(call.xs[i + 1], call.ys[j + 1])
           THEN /\ PlotReturn("ValueError", pre)
                /\ UNCHANGED <<axes, lines, plotdict>>
           ELSE /\ plotdict' = [plotdict EXCEPT !.windowsize = WsNone]
                /\ axes' = drawn
                /\ IF ~InGrid(lines, i, j)
                   THEN /\ PlotReturn("IndexError", pre)
                        /\ UNCHANGED lines
                   ELSE /\ lines' =
                             Show([lines EXCEPT !.filled = @ \cup {<<i, j>>}],
                                  i, j, call.ys[j + 1].len)
                        /\ IF call.k = Len(DrawPairs(call))
                           THEN PlotReturn("ok", pre)
                           ELSE /\ call' = [call EXCEPT !.k = @ + 1]
                                /\ UNCHANGED <<fgpc, ret, pre>>
    /\ UNCHANGED <<engine, bgvars, mode, stopped, closes, stops>>

(***************************************************************************)
(* The foreground: clear(), autoscale(), close(), stop().                  *)
(***************************************************************************)
\* lines 455-460; that the call was clear() stays on record until the next
\* call
Clear ==
    /\ fgpc = "idle"
    /\ mode' = "none"
    /\ call' = [NoCall EXCEPT !.name = "clear"]
    /\ ret' = "ok"
    /\ UNCHANGED fgpc
    /\ pre' = NoSession
    /\ UNCHANGED <<engine, bgvars, plotdict, axes, lines, stopped, closes,
                   stops>>

\* the values passed as xflag and yflag: flags, numbers, and None for yflag
XFlags == {"True", "False", "0"}
YFlags == {"None", "False", "1"}

\* bool(v)
bool(v) == v \notin {"False", "None", "0"}

\* a default taken whenever yflag is falsy (if not yflag)
yflagUnlessTruthy(xflag, yflag) == IF ~bool(yflag) THEN xflag ELSE yflag

\* lines 668-669: if yflag is None: yflag = xflag
yflagOf(xflag, yflag) == IF yflag = "None" THEN xflag ELSE yflag

\* lines 659-670: autoscale(xflag, yflag) up to the first store
AutoscaleX ==
    \E xflag \in XFlags, yflag \in YFlags :
        /\ fgpc = "idle"
        /\ plotdict' = [plotdict EXCEPT !.autoscalex = bool(xflag)]
        /\ call' = [NoCall EXCEPT !.xflag = xflag, !.yflag = yflag,
                                   !.name = "autoscale"]
        /\ fgpc' = "autoscale_y"
        /\ pre' = NoSession
        /\ UNCHANGED <<engine, bgvars, mode, axes, lines, stopped, closes,
                       stops, ret>>

\* line 671, and autoscale() returns; its arguments stay on record until the
\* next call
AutoscaleY ==
    /\ fgpc = "autoscale_y"
    /\ plotdict' =
          [plotdict EXCEPT
              !.autoscaley = bool(yflagOf(call.xflag, call.yflag))]
    /\ fgpc' = "idle"
    /\ ret' = "ok"
    /\ UNCHANGED <<engine, bgvars, mode, axes, lines, stopped, closes,
                   stops, pre, call>>

Autoscale == AutoscaleX \/ AutoscaleY

\* lines 519-521: plt.close(self.fig); self.reader.close()
Close ==
    /\ fgpc = "idle"
    /\ closes' = Bump(closes)
    /\ Return("ok")
    /\ pre' = NoSession
    /\ UNCHANGED <<engine, bgvars, mode, plotdict, axes, lines, stopped,
                   stops>>

\* a stop() that joins without asking isAlive()
JoinsAlways(i, alive) == TRUE

\* a stop() that never joins
JoinsNever(i, alive) == FALSE

\* lines 513-515: the thread is joined only if it is alive
Joins(i, alive) == i /\ alive

\* lines 512-515: stop() up to the join
StopCall ==
    /\ fgpc = "idle"
    /\ IF Joins(interactive, isAlive)
       THEN /\ stopped' = TRUE
            /\ fgpc' = "stop_join"
       ELSE /\ fgpc' = "stop_close"
            /\ UNCHANGED stopped
    /\ pre' = NoSession
    /\ UNCHANGED <<engine, bgvars, mode, plotdict, axes, lines, closes, stops,
                   call, ret>>

\* line 516: self.join() returns once run() has ended
StopJoin ==
    /\ fgpc = "stop_join"
    /\ ~isAlive
    /\ fgpc' = "stop_close"
    /\ UNCHANGED <<engine, bgvars, mode, plotdict, axes, lines, stopped,
                   closes, stops, pre, call, ret>>

\* line 517: self.close(), and stop() returns
StopClose ==
    /\ fgpc = "stop_close"
    /\ closes' = Bump(closes)
    /\ stops' = Bump(stops)
    /\ Return("ok")
    /\ UNCHANGED <<engine, bgvars, mode, plotdict, axes, lines, stopped, pre>>


(***************************************************************************)
(* The engine's thread: run() (lines 523-531), _update (533-535),          *)
(* _update_plot (541-545), _update_plot_slow (547-572), _update_line_slow  *)
(* (574-594), autoscale_axes (599-646).                                    *)
(***************************************************************************)
\* an entry of the tick's log
Ev(name) == <<name, 0, 0>>
LineEv(i, j) == <<"line", i, j>>

\* a loop that never tests the flag (while True)
LoopNeverExits(flag) == FALSE

\* line 524: while not self.stopped.isSet()
LoopExits(flag) == flag

\* a handler that swallows the exception and lets the loop go on
RaiseSwallowed(e) ==
    /\ bgpc' = "check"
    /\ bgerr' = e
    /\ UNCHANGED stopped

\* lines 528-530: except Exception as e: self.stopped.set(); raise e
Raise(e) ==
    /\ stopped' = TRUE
    /\ bgpc' = "raised"
    /\ bgerr' = e

\* a tick that redraws before it autoscales
StepAfterRedrawFirst(pc) ==
    CASE pc = "update" -> "dispatch"
      [] pc = "dispatch" -> "read"
      [] pc = "read" -> "line"
      [] pc = "line" -> "draw"
      [] pc = "draw" -> "autoscale"
      [] pc = "autoscale" -> "check"

\* the order of the statements of a tick in mode 'plot': _update (534-535),
\* then _update_plot_slow's loops (558-569), line 571, line 572
StepAfter(pc) ==
    CASE pc = "update" -> "dispatch"
      [] pc = "dispatch" -> "read"
      [] pc = "read" -> "line"
      [] pc = "line" -> "autoscale"
      [] pc = "autoscale" -> "draw"
      [] pc = "draw" -> "check"

\* line 524: the loop test, between two ticks
BgCheck ==
    /\ bgpc = "check"
    /\ IF LoopExits(stopped)
       THEN /\ bgpc' = "closing"
            /\ UNCHANGED tick
       ELSE /\ bgpc' = "update"
            /\ tick' = [NoTick EXCEPT !.began = mode]
    /\ UNCHANGED <<engine, data, bgerr, mode, plotdict, axes, lines, stopped,
                   closes, fgpc, call, ret, pre, stops>>

\* line 534: self.data = self.reader.update_data(): the Table with the rows
\* appended since, or the reader's exception
BgUpdate ==
    /\ bgpc = "update"
    /\ \/ /\ \E rows \in data..Min(data + 1, MaxRows) : data' = rows
          /\ tick' = [tick EXCEPT !.log = Append(@, Ev("update"))]
          /\ bgpc' = StepAfter("update")
          /\ UNCHANGED <<stopped, bgerr>>
       \/ /\ Raise("DataSourceError")
          /\ UNCHANGED <<data, tick>>
    /\ UNCHANGED <<engine, mode, plotdict, axes, lines, closes, fgpc,
                   call, ret, pre, stops>>

\* a table that runs the update step in every mode
update_dict_plot_always(m) == "_update_plot"

\* lines 488-489: self._update_dict
update_dict(m) == IF m = "none" THEN "_pass" ELSE "_update_plot"

\* line 535 and lines 541-545: the step of the mode, then of the backend;
\* _pass returns at once and the loop sleeps (line 527)
BgDispatch ==
    /\ bgpc = "dispatch"
    /\ tick' = [tick EXCEPT !.found = mode]
    /\ IF update_dict(mode) = "_pass"
       THEN /\ bgpc' = "check"
            /\ UNCHANGED <<stopped, bgerr>>
       ELSE IF backend \notin update_backend
       THEN Raise("KeyError")
       ELSE /\ bgpc' = StepAfter("dispatch")
            /\ UNCHANGED <<stopped, bgerr>>
    /\ UNCHANGED <<engine, data, mode, plotdict, axes, lines,
                   closes, fgpc, call, ret, pre, stops>>

\* lines 552-556: the tick's own references to the series and transforms
BgRead ==
    /\ bgpc = "read"
    /\ IF ~plotdict.set
       THEN /\ Raise("KeyError")
            /\ UNCHANGED tick
       ELSE /\ tick' = [tick EXCEPT !.oneD = plotdict.oneD,
                                    !.xs = plotdict.xs,
                                    !.ys = plotdict.ys,
                                    !.xtrans = plotdict.xtrans,
                                    !.ytrans = plotdict.ytrans,
                                    !.k = 1]
            /\ bgpc' = StepAfter("read")
            /\ UNCHANGED <<stopped, bgerr>>
    /\ UNCHANGED <<engine, data, mode, plotdict, axes, lines, closes,
                   fgpc, call, ret, pre, stops>>

\* a line update that stores the window it computed, as the draw does at
\* line 403
TickStoresWindow(p) == [p EXCEPT !.windowsize = 0]

\* lines 552-556, 579-580, 600-601: the tick looks keys of self._plotdict up
\* and stores none of them
TickPlotdict(p) == p

\* the pairs the loops of lines 558-569 visit
TickPairs(t) == Pairs(t.oneD, IF t.oneD THEN 1 ELSE Len(t.xs), Len(t.ys))

\* lines 561-562 or 566-569 with _update_line_slow: the exception the pass
\* for (i, j) raises, or "ok"
LineError(t, i, j) ==
    IF ~InGrid(lines, i, j) THEN "IndexError"
    ELSE IF ~plotdict.oneD /\ (t.oneD \/ t.xtrans[i + 1] = "None")
    THEN "TypeError"
    ELSE IF t.ytrans[j + 1] = "None" THEN "TypeError"
    ELSE IF <<i, j>> \notin lines.filled THEN "AttributeError"
    ELSE "ok"

\* one pass of the loop body of _update_plot_slow
BgLine ==
    /\ bgpc = "line"
    /\ LET i == TickPairs(tick)[tick.k][1]
           j == TickPairs(tick)[tick.k][2]
       IN  IF LineError(tick, i, j) # "ok"
           THEN /\ Raise(LineError(tick, i, j))
                /\ UNCHANGED <<tick, lines>>
           ELSE /\ tick' = [tick EXCEPT !.log = Append(@, LineEv(i, j)),
                                        !.k = @ + 1]
                /\ lines' = Show(lines, i, j, tick.ys[j + 1].len)
                /\ bgpc' = IF tick.k = Len(TickPairs(tick))
                           THEN StepAfter("line") ELSE "line"
                /\ UNCHANGED <<stopped, bgerr>>
    /\ plotdict' = TickPlotdict(plotdict)
    /\ UNCHANGED <<engine, data, mode, axes, closes,
                   fgpc, call, ret, pre, stops>>

\* lines 618-628: min() of an empty list, for a cell that carries no line
EmptyCell(ax) ==
    \E r \in 0..(ax.rows - 1), c \in 0..(ax.cols - 1) :
        \A d \in ax.drawn : <<d[1], d[2]>> # <<r, c>>

\* line 571: self.autoscale_axes()
BgAutoscale ==
    /\ bgpc = "autoscale"
    /\ IF (plotdict.autoscalex \/ plotdict.autoscaley) /\ EmptyCell(axes)
       THEN /\ Raise("ValueError")
            /\ UNCHANGED tick
       ELSE /\ tick' = [tick EXCEPT !.log = Append(@, Ev("autoscale"))]
            /\ bgpc' = StepAfter("autoscale")
            /\ UNCHANGED <<stopped, bgerr>>
    /\ UNCHANGED <<engine, data, mode, plotdict, axes, lines, closes,
                   fgpc, call, ret, pre, stops>>

\* line 572: self.fig.canvas.draw(), then the sleep of line 527
BgDraw ==
    /\ bgpc = "draw"
    /\ tick' = [tick EXCEPT !.log = Append(@, Ev("draw"))]
    /\ bgpc' = StepAfter("draw")
    /\ UNCHANGED <<engine, data, bgerr, mode, plotdict, axes, lines,
                   stopped, closes, fgpc, call, ret, pre, stops>>

\* line 531: self.close() once the loop has ended, and run() returns
BgClose ==
    /\ bgpc = "closing"
    /\ closes' = Bump(closes)
    /\ bgpc' = "done"
    /\ UNCHANGED <<engine, data, tick, bgerr, mode, plotdict, axes,
                   lines, stopped, fgpc, call, ret, pre, stops>>

(***************************************************************************)
(* One line followed sample by sample: plot() of one y series, against its *)
(* index or against one x series, and the tick's update of that line.      *)
(***************************************************************************)
\* what the rest of the engine is left as by the steps on the one line
object ==
    <<interactive, backend, data, mode, axes, lines, stopped, closes, fgpc,
      call, ret, pre, stops, bgpc, tick, bgerr>>

\* the loop body of plot() for the one pair (lines 353-360 or 366-375) with
\* _plotyt (399-411) or _plotxy (432-453); line 336 has stored oneD
DrawLine ==
    /\ ~line.drawn
    /\ line.err = "none"
    /\ LET ws == wsOf(series.y, series.windowsize)
           ydata == DrawData(series.ytrans, series.y, ws)
           xdata == IF series.oneD THEN Range(Len(ydata))
                    ELSE DrawData(series.xtrans, series.x, ws)
       IN  IF ~series.oneD /\ Len(series.x) # Len(series.y)
           THEN /\ line' = [line EXCEPT !.err = "ValueError"]
                /\ plotdict' = [plotdict EXCEPT !.oneD = series.oneD]
           ELSE /\ plotdict' =
                     [plotdict EXCEPT !.oneD = series.oneD,
                                      !.windowsize = series.windowsize]
                /\ line' =
                     [line EXCEPT !.drawn = TRUE,
                                  !.xdata = xdata,
                                  !.ydata = ydata,
                                  !.seen = DrawSeen(series.ytrans, series.y, ws),
                                  !.first = <<xdata, ydata>>]
    /\ UNCHANGED <<object, series, cells>>

\* _update_line_slow (lines 574-594) as _update_plot_slow calls it for the
\* line (562 or 569), on the series plot() stored
UpdateLine ==
    /\ line.drawn
    /\ line.err = "none"
    /\ LET ws == wsOf(series.y, plotdict.windowsize)
       IN  IF \/ ~plotdict.oneD /\ ~Callable(series.xtrans)
              \/ ~Callable(series.ytrans)
           THEN line' = [line EXCEPT !.err = "TypeError"]
           ELSE line' =
                  [line EXCEPT
                     !.xdata = IF plotdict.oneD
                               THEN SliceLast(Range(Len(series.y)), ws)
                               ELSE UpdateData(series.xtrans, series.x, ws),
                     !.ydata = UpdateData(series.ytrans, series.y, ws),
                     !.seen = series.y,
                     !.updated = TRUE]
    /\ plotdict' = TickPlotdict(plotdict)
    /\ UNCHANGED <<object, series, cells>>

(***************************************************************************)
(* autoscale_axes (lines 599-646) on the cells.  Samples are whole numbers *)
(* and axis limits are kept in tenths, so that the 0.1*dx of lines 638-641 *)
(* is exact: a limit of -10 is -1.0.                                       *)
(***************************************************************************)
SeqMin(s) == CHOOSE m \in {s[k] : k \in 1..Len(s)} : \A k \in 1..Len(s) : m <= s[k]
SeqMax(s) == CHOOSE m \in {s[k] : k \in 1..Len(s)} : \A k \in 1..Len(s) : m >= s[k]

\* ax.lines: the line followed, if it is on the cell, then the others
AxLines(c) ==
    (IF c.own /\ line.drawn
     THEN <<[xdata |-> line.xdata, ydata |-> line.ydata]>> ELSE << >>)
    \o c.others

\* lines 618-628, 650-657: min() and max() of an empty sequence raise
\* ValueError, for a line without data and for a cell without lines
MinMaxFails(lns) ==
    \/ lns = << >>
    \/ \E k \in 1..Len(lns) : lns[k].xdata = << >> \/ lns[k].ydata = << >>

\* lines 618-628: xmin, xmax, ymin, ymax over the lines of the cell
DataBounds(lns) ==
    [xmin |-> SeqMin([k \in 1..Len(lns) |-> SeqMin(lns[k].xdata)]),
     xmax |-> SeqMax([k \in 1..Len(lns) |-> SeqMax(lns[k].xdata)]),
     ymin |-> SeqMin([k \in 1..Len(lns) |-> SeqMin(lns[k].ydata)]),
     ymax |-> SeqMax([k \in 1..Len(lns) |-> SeqMax(lns[k].ydata)])]

\* lines 630-633 for one axis, with mid = lo + (hi - lo)/2.:
\* (min < lo) or (min > mid), (max > hi) or (max < mid)
mincond(dmin, lim) == 10 * dmin < lim[1] \/ 20 * dmin > lim[1] + lim[2]
maxcond(dmax, lim) == 10 * dmax > lim[2] \/ 20 * dmax < lim[1] + lim[2]

\* line 634
cond(b, c) ==
    \/ mincond(b.xmin, c.xlim)
    \/ maxcond(b.xmax, c.xlim)
    \/ mincond(b.ymin, c.ylim)
    \/ maxcond(b.ymax, c.ylim)

\* lines 636-641: dx is the margin of both axes
newxlim(b) == <<10 * b.xmin - (b.xmax - b.xmin), 10 * b.xmax + (b.xmax - b.xmin)>>
newylim(b) == <<10 * b.ymin - (b.xmax - b.xmin), 10 * b.ymax + (b.xmax - b.xmin)>>

\* an autoscale that sets the x limits whatever the flag is
SetsXAlways(c, xflag) == c

\* lines 643, 645: the guards of set_xlim and set_ylim inside `if cond`
SetsX(c, xflag) == c /\ xflag
SetsY(c, yflag) == c /\ yflag

\* what the cell was when autoscale_axes last came to it, and the flags and
\* data bounds it had then
NoBounds == [xmin |-> 0, xmax |-> 0, ymin |-> 0, ymax |-> 0]

Was(c, b, xflag, yflag) ==
    [xlim |-> c.xlim, ylim |-> c.ylim, xflag |-> xflag, yflag |-> yflag,
     b |-> b]

\* lines 607-646: one pass of the loop over the cells
ScaleCell(c, xflag, yflag) ==
    LET b == DataBounds(AxLines(c))
    IN  [c EXCEPT
           !.xlim = IF SetsX(cond(b, c), xflag) THEN newxlim(b) ELSE @,
           !.ylim = IF SetsY(cond(b, c), yflag) THEN newylim(b) ELSE @,
           !.scaled = TRUE,
           !.was = Was(c, b, xflag, yflag)]

\* the cells whose pass raises
Failing(cs) == {k \in 1..Len(cs) : MinMaxFails(AxLines(cs[k]))}

\* the first cell whose pass raises, or one past the last cell
FirstFailing(cs) ==
    IF Failing(cs) = {} THEN Len(cs) + 1
    ELSE CHOOSE k \in Failing(cs) : \A m \in Failing(cs) : k <= m

\* line 571 on the cells: autoscale_axes() as a whole; it raises out of the
\* loop at the first cell whose pass raises
AutoscaleAxes ==
    /\ line.drawn
    /\ line.err = "none"
    /\ LET xflag == plotdict.autoscalex
           yflag == plotdict.autoscaley
           f == FirstFailing(cells)
       IN  IF ~xflag /\ ~yflag
           THEN /\ cells' = [k \in 1..Len(cells) |->
                               [cells[k] EXCEPT
                                  !.scaled = TRUE,
                                  !.was = Was(cells[k], NoBounds, xflag, yflag)]]
                /\ UNCHANGED line
           ELSE /\ cells' = [k \in 1..Len(cells) |->
                               IF k < f THEN ScaleCell(cells[k], xflag, yflag)
                               ELSE cells[k]]
                /\ line' = [line EXCEPT
                              !.err = IF f <= Len(cells) THEN "ValueError"
                                      ELSE @]
    /\ UNCHANGED <<object, plotdict, series>>

(***************************************************************************)
(* The specifications.                                                     *)
(***************************************************************************)
Stop == StopCall \/ StopJoin \/ StopClose

Bg ==
    \/ BgCheck
    \/ BgUpdate
    \/ BgDispatch
    \/ BgRead
    \/ BgLine
    \/ BgAutoscale
    \/ BgDraw
    \/ BgClose

Fg(Args) ==
    \/ PlotCall(Args)
    \/ PlotAxes
    \/ PlotMode
    \/ PlotDraw
    \/ Clear
    \/ Autoscale
    \/ Close
    \/ Stop

\* the engine, its thread and its caller
Next == Fg(EngineArgs) \/ Bg

\* the axis limits a cell has before autoscale_axes comes to it, in tenths
Limits == {<<-5, 35>>, <<0, 10>>}

\* a line of another pair, on the same cell or on the next one
OtherLine == [xdata |-> <<0, 3>>, ydata |-> <<1, 1>>]

NewCell(xlim, ylim, own, others) ==
    [xlim |-> xlim, ylim |-> ylim, own |-> own, others |-> others,
     scaled |-> FALSE, was |-> Was([xlim |-> xlim, ylim |-> ylim], NoBounds, FALSE, FALSE)]

\* the cell of the line, alone, or before a cell with another line, or before
\* a cell with no line
Grids ==
    LET first == {NewCell(xl, yl, TRUE, o) :
                     xl \in Limits, yl \in Limits, o \in {<< >>, <<OtherLine>>}}
        second == {NewCell(<<0, 10>>, <<0, 10>>, FALSE, o) :
                     o \in {<< >>, <<OtherLine>>}}
    IN  {<<c>> : c \in first}
        \cup {<<c, d>> : c \in {e \in first : e.others = << >>}, d \in second}

\* the series, window size and transforms of the line: y against its index,
\* or against an x of its length (y reversed) or longer
LineArgs ==
    {[oneD |-> TRUE, x |-> << >>, y |-> y, windowsize |-> w,
      xtrans |-> "None", ytrans |-> t] :
        y \in SeriesOf(MaxLen), w \in WindowSizes, t \in Transforms}
    \cup
    {[oneD |-> FALSE, x |-> [k \in 1..Len(y) |-> y[Len(y) + 1 - k]], y |-> y,
      windowsize |-> w, xtrans |-> xt, ytrans |-> t] :
        y \in SeriesOf(MaxLen), w \in WindowSizes, t \in Transforms,
        xt \in {"None", "scale"}}
    \cup
    {[oneD |-> FALSE, x |-> Append(y, 1), y |-> y, windowsize |-> w,
      xtrans |-> "scale", ytrans |-> "scale"] :
        y \in SeriesOf(MaxLen), w \in WindowSizes}

\* an interactive engine on a supported backend after calls of autoscale(),
\* and one line on it
InitLine ==
    /\ InitObject
    /\ interactive
    /\ backend = "wxagg"
    /\ \E xflag \in BOOLEAN, yflag \in BOOLEAN :
          plotdict = [InitPlotdict EXCEPT !.autoscalex = xflag,
                                          !.autoscaley = yflag]
    /\ series \in LineArgs
    /\ line = NoLine
    /\ cells \in Grids

NextLine ==
    \/ DrawLine
    \/ UpdateLine
    \/ AutoscaleAxes

SpecLine == InitLine /\ [][NextLine]_vars

\* PyOscopeStatic alone, which has no thread: plot() and clear()
InitStatic == Init /\ ~interactive /\ backend = "wxagg"

NextStatic ==
    \/ PlotCall(LayoutArgs \cup FailingArgs)
    \/ PlotAxes
    \/ PlotMode
    \/ PlotDraw
    \/ Clear

SpecStatic == InitStatic /\ [][NextStatic]_vars

Spec == Init /\ [][Next]_vars

\* the lifetime of an interactive engine whose caller plots, clears and stops
\* it, and never calls close() itself
InitLifetime == Init /\ interactive

NextLifetime ==
    \/ PlotCall(EngineArgs)
    \/ PlotAxes
    \/ PlotMode
    \/ PlotDraw
    \/ Clear
    \/ Stop
    \/ Bg

SpecLifetime == InitLifetime /\ [][NextLifetime]_vars

\* both threads are scheduled: the engine's thread goes on, and so does a
\* stop() call that has begun
FairSpec == Spec /\ WF_vars(Bg) /\ WF_vars(StopJoin \/ StopClose)


(***************************************************************************)
(* Properties.                                                             *)
(***************************************************************************)
IsPrefix(s, t) == Len(s) <= Len(t) /\ s = SubSeq(t, 1, Len(s))

\* a tick has begun: _update has been called by the engine's thread
TickBegun ==
    \/ bgpc \in {"update", "dispatch", "read", "line", "autoscale", "draw",
                 "raised"}
    \/ tick.log # << >>

\* C1: once a stop() call has returned, a later stop() call never reaches the
\* join (it cannot block on the thread) and returns normally, whether the
\* engine is interactive or not.
C1_LaterStopNeverJoins ==
    stops >= 1 => (fgpc # "stop_join" /\ (fgpc = "stop_close" => ~isAlive))

\* a second stop() call has returned on an interactive engine
C1_Witness == stops = 2 /\ interactive /\ fgpc = "idle" /\ ret = "ok"

\* C2: only an engine constructed with interactive=True ever has a running
\* thread or a tick; on a non-interactive engine no tick begins whatever the
\* foreground calls.
C2_TicksOnlyWhenInteractive ==
    ~interactive => (bgpc = "unstarted" /\ ~TickBegun /\ data = 1)

\* a non-interactive engine after plot(), stop() and a further close()
C2_Witness == ~interactive /\ mode = "plot" /\ stops >= 1 /\ closes = 2

\* the log of a whole tick in mode 'plot' over the pairs the tick visits
FullTickLog(t) ==
    <<Ev("update")>>
    \o [k \in 1..Len(TickPairs(t)) |->
           LineEv(TickPairs(t)[k][1], TickPairs(t)[k][2])]
    \o <<Ev("autoscale"), Ev("draw")>>

\* C3: the steps of a tick occur in the order update(), every line of the
\* tick, autoscale, redraw: the log of a tick is at every moment a beginning
\* of that sequence, so a redraw is logged only after all of them.
C3_TickOrder == IsPrefix(tick.log, FullTickLog(tick))

\* a tick over two lines has requested its redraw
C3_Witness == Len(tick.log) = 5 /\ tick.log[5] = Ev("draw")

\* C4: an exception raised in a tick ends run() with that exception and with
\* the stop flag set, and the thread takes no step afterwards.
C4_TickErrorIsFatal ==
    /\ [](bgerr # "none" => (bgpc = "raised" /\ stopped))
    /\ [][bgerr # "none" => UNCHANGED <<bgvars, stopped>>]_vars

\* a line update raised TypeError, and the foreground went on to call plot()
C4_Witness == bgerr = "TypeError" /\ bgpc = "raised" /\ fgpc = "plot_draw"

\* C5: the loop leaves only at its test, with the flag set (a tick in flight is
\* not cut short), and a stop() call that waits in join() returns, with the
\* thread no longer alive.
C5_StopTerminates ==
    /\ [][(bgpc' = "closing" /\ bgpc # "closing")
            => (bgpc = "check" /\ stopped)]_vars
    /\ [](fgpc = "stop_close" => ~isAlive)
    /\ (fgpc = "stop_join") ~> (fgpc = "idle" /\ ~isAlive)

\* stop() waits in join() while the tick in flight goes on to its autoscale
C5_Witness == fgpc = "stop_join" /\ stopped /\ bgpc = "autoscale"

\* C6: once a stop() call has returned the thread is not alive and takes no
\* step: no tick begins and update_data() is not called, whatever the
\* foreground calls afterwards.
C6_StopIsTerminal ==
    /\ [](stops >= 1 => ~isAlive)
    /\ [][stops >= 1 => UNCHANGED bgvars]_vars

\* plot() is called on an interactive engine after stop() has returned
C6_Witness == stops >= 1 /\ interactive /\ fgpc = "plot_draw" /\ bgpc = "done"

\* the pairs of a PlotDict, as a set
PairSet(isOneD, xs, ys) ==
    LET ps == Pairs(isOneD, IF isOneD THEN 1 ELSE Len(xs), Len(ys))
    IN  {ps[k] : k \in 1..Len(ps)}

\* the series, the axes grid and the line grid are those of one plot() call
Coherent(isOneD, xs, ys, ax, ln) ==
    /\ ln.filled = PairSet(isOneD, xs, ys)
    /\ {<<d[3], d[4]>> : d \in ax.drawn} = PairSet(isOneD, xs, ys)
    /\ ax.rows = ln.leny
    /\ ax.cols = ln.lenx

\* C7: when a tick in mode 'plot' is about to read a line handle, the series
\* it holds, the axes grid and the line grid are those of one plot() call.
C7_TickSeesOneSession ==
    bgpc = "line" => Coherent(tick.oneD, tick.xs, tick.ys, axes, lines)

\* C8: after a plot() call has raised, the mode, the axes grid, the line grid
\* and the PlotDict are what they were when the call began.
C8_FailedPlotChangesNothing ==
    (fgpc = "idle" /\ ret # "ok") => Session = pre

\* exactly one of xs, ys is None
ExactlyOneGiven(a) == (a.xs = None) # (a.ys = None)

\* C9: the axes grid plot() creates has len(ys) rows if splity else 1, and
\* len(xs) columns if splitx and not oneD else 1, where ys is the argument
\* that supplies the y series.
C9_GridShape ==
    fgpc \in {"plot_mode", "plot_draw"} =>
        LET a == call.a
            ys == IF a.ys = None THEN a.xs ELSE a.ys
        IN  /\ axes.rows = (IF a.splity THEN Len(ys) ELSE 1)
            /\ axes.cols = (IF a.splitx /\ ~ExactlyOneGiven(a)
                            THEN Len(a.xs) ELSE 1)

\* xs = [a, b], ys = [c], both split: one row, two columns
C9_Witness ==
    /\ fgpc = "plot_draw"
    /\ Len(call.a.xs) = 2 /\ Len(call.a.ys) = 1
    /\ call.a.splitx /\ call.a.splity
    /\ axes.rows = 1 /\ axes.cols = 2

\* the lines on cell (row, column) of the axes grid
LinesOn(ax, r, c) == {d \in ax.drawn : d[1] = r /\ d[2] = c}

\* C10: a plot() call with splitx=False and splity=False on n x identifiers
\* and m y identifiers (columns of the Table) returns normally, with n*m line
\* handles stored and n*m lines on the one axes cell.
C10_UnsplitPlotDrawsAllPairs ==
    [][(/\ fgpc = "plot_draw"
        /\ fgpc' = "idle"
        /\ call.a \in LayoutArgs
        /\ ~oneD(call.a)
        /\ ~call.a.splitx
        /\ ~call.a.splity)
       => (/\ ret' = "ok"
           /\ Cardinality(lines'.filled) = Len(call.a.xs) * Len(call.a.ys)
           /\ Cardinality(LinesOn(axes', 0, 0))
                 = Len(call.a.xs) * Len(call.a.ys))]_vars

\* the trailing min(w, n) samples of a series of length n, all of them when
\* the window size is None
Trailing(s, windowsize) ==
    IF windowsize = WsNone THEN s
    ELSE LastSamples(s, Min(windowsize, Len(s)))

\* the line has been drawn by plot() and no tick has updated it
JustDrawn == line.drawn /\ ~line.updated

\* C11: the data _plotyt and _plotxy draw for a series of length n and a
\* window size w (None or 0, 1, 2, ...) has the whole series when w is None
\* and otherwise exactly its trailing min(w, n) samples, and no window size
\* makes the draw raise.
C11_DrawnWindow ==
    /\ JustDrawn =>
          /\ Len(line.ydata) = Len(Trailing(series.y, series.windowsize))
          /\ series.ytrans = "None" =>
                line.ydata = Trailing(series.y, series.windowsize)
          /\ (~series.oneD /\ series.xtrans = "None") =>
                line.xdata = Trailing(series.x, series.windowsize)
    /\ (~line.drawn /\ line.err # "none") => Len(series.x) # Len(series.y)

\* C12: the transform of the draw is called with exactly the trailing
\* min(w, n) samples, and what is drawn is its result on them.
C12_TransformSeesWindow ==
    JustDrawn =>
        /\ line.seen = Trailing(series.y, series.windowsize)
        /\ line.ydata = Apply(series.ytrans, Trailing(series.y, series.windowsize))
        /\ ~series.oneD =>
              line.xdata = Apply(series.xtrans, Trailing(series.x, series.windowsize))

\* the last foreground call to return was autoscale(xflag, yflag)
AutoscaleReturned(xflag, yflag) ==
    fgpc = "idle" /\ call.k = 0 /\ call.xflag = xflag /\ call.yflag = yflag

\* C13: autoscale(xflag) without yflag leaves both flags at bool(xflag), and
\* autoscale(xflag, yflag) leaves the x flag at bool(xflag) and the y flag at
\* bool(yflag); neither store changes any other field of the PlotDict.
C13_AutoscaleFlags ==
    /\ [](\A xflag \in XFlags, yflag \in YFlags :
            AutoscaleReturned(xflag, yflag) =>
                /\ plotdict.autoscalex = bool(xflag)
                /\ plotdict.autoscaley =
                      (IF yflag = "None" THEN bool(xflag) ELSE bool(yflag)))
    /\ [][(fgpc' = "autoscale_y" \/ fgpc = "autoscale_y")
          => ([plotdict' EXCEPT !.autoscalex = TRUE, !.autoscaley = TRUE]
              = [plotdict EXCEPT !.autoscalex = TRUE, !.autoscaley = TRUE])]_vars

\* autoscale(False) has returned on an engine that shows a plot
C13_Witness ==
    /\ AutoscaleReturned("False", "None")
    /\ mode = "plot"
    /\ ~plotdict.autoscalex
    /\ ~plotdict.autoscaley

\* the limits, in tenths, that are the data bounds lo..hi widened by a tenth
\* of their span on each side
Widened(lo, hi) == <<10 * lo - (hi - lo), 10 * hi + (hi - lo)>>

\* autoscale_axes has come to cell c and called set_xlim or set_ylim on it
Rescaled(c) ==
    c.scaled /\ cond(c.was.b, c.was) /\ (c.was.xflag \/ c.was.yflag)

\* C14: when autoscale_axes rescales a cell, the x limits of an enabled x axis
\* are the x data bounds widened by 10% of the x span on each side, and the
\* y limits of an enabled y axis are the y data bounds widened by 10% of the
\* y span, whatever the x span is.
C14_MarginsOfOwnAxis ==
    \A k \in 1..Len(cells) :
        LET c == cells[k]
            b == c.was.b
        IN  Rescaled(c) =>
              /\ c.was.xflag => c.xlim = Widened(b.xmin, b.xmax)
              /\ c.was.yflag => c.ylim = Widened(b.ymin, b.ymax)

\* the four conditions of one axis: the data min below the current min or
\* above the current midpoint, the data max above the current max or below
\* the current midpoint
Needs(dmin, dmax, lim) ==
    \/ 10 * dmin < lim[1]
    \/ 20 * dmin > lim[1] + lim[2]
    \/ 10 * dmax > lim[2]
    \/ 20 * dmax < lim[1] + lim[2]

\* C17: autoscale_axes replaces the limits of an enabled axis exactly when one
\* of the four conditions holds for that axis; otherwise the axis keeps its
\* limits, even if the other axis of the cell is rescaled.
C17_RescalePerAxis ==
    \A k \in 1..Len(cells) :
        LET c == cells[k]
            w == c.was
        IN  c.scaled =>
              /\ w.xflag =>
                    ((c.xlim # w.xlim) <=> Needs(w.b.xmin, w.b.xmax, w.xlim))
              /\ w.yflag =>
                    ((c.ylim # w.ylim) <=> Needs(w.b.ymin, w.b.ymax, w.ylim))

\* C18: autoscale_axes leaves the limits of an axis whose flag is disabled as
\* they were, in every cell it comes to and whatever the data of the lines is
\* (both axes when both flags are disabled); a cell it does not come to keeps
\* its limits too.
C18_DisabledAxisKeepsLimits ==
    \A k \in 1..Len(cells) :
        LET c == cells[k]
            w == c.was
        IN  /\ (~c.scaled \/ ~w.xflag) => c.xlim = w.xlim
            /\ (~c.scaled \/ ~w.yflag) => c.ylim = w.ylim

\* after a tick has updated the line, autoscale_axes has rescaled the y axis
\* of its cell with the x flag disabled
C18_Witness ==
    /\ line.updated
    /\ cells[1].scaled
    /\ ~cells[1].was.xflag
    /\ cells[1].was.yflag
    /\ cells[1].ylim # cells[1].was.ylim
    /\ Needs(cells[1].was.b.xmin, cells[1].was.b.xmax, cells[1].was.xlim)

\* the backends the claim names as supported
Supported == {"macosx", "wxagg"}

\* C15: the update step is looked up by the backend's name in every tick that
\* finds mode 'plot': on another backend than 'macosx' and 'wxagg' that tick
\* ends the thread with a KeyError, no update step is run and no line handle
\* is given data; a tick that finds mode 'none' does no lookup and does not
\* fail, whatever the backend is.
C15_BackendLookup ==
    /\ [](backend \notin Supported =>
            /\ bgpc \notin {"read", "line", "autoscale", "draw"}
            /\ Len(tick.log) <= 1)
    /\ [][(backend \notin Supported /\ lines.filled = lines'.filled)
            => lines'.shown = lines.shown]_vars
    /\ [][(bgpc = "dispatch" /\ bgpc' # "dispatch") =>
            IF mode = "none"
            THEN bgpc' = "check" /\ bgerr' = "none" /\ stopped' = stopped
            ELSE IF backend \in Supported
            THEN bgpc' = "read" /\ bgerr' = "none"
            ELSE bgpc' = "raised" /\ bgerr' = "KeyError" /\ stopped']_vars

\* on another backend, the first tick after plot() has ended the thread
C15_Witness ==
    /\ backend = "tkagg"
    /\ mode = "plot"
    /\ lines.filled # {}
    /\ bgpc = "raised"
    /\ bgerr = "KeyError"
    /\ tick.log = <<Ev("update")>>

\* the number of rows the handle at (i, j) displays
ShownRows(l, i, j) == {t[3] : t \in {u \in l.shown : u[1] = i /\ u[2] = j}}

\* C16: when a tick in mode 'plot' updates the line of a series given by
\* column name or index, the handle displays the column of the Table that the
\* tick's update() returned: as many rows as self.data has, also when that is
\* more than the Table had when plot() was called.
C16_TickShowsRefreshedTable ==
    [][(bgpc = "line" /\ tick'.k = tick.k + 1) =>
          LET i == TickPairs(tick)[tick.k][1]
              j == TickPairs(tick)[tick.k][2]
          IN  tick.ys[j + 1].id.kind = "name" =>
                ShownRows(lines', i, j) = {data}]_vars

\* the tick has gone past the lookup of its mode into the update of the plot
TickTouchesPlot ==
    \/ bgpc \in {"read", "line", "autoscale", "draw"}
    \/ Len(tick.log) > 1
    \/ bgerr \notin {"none", "DataSourceError"}

\* clear() has returned and no other call has begun
Cleared == fgpc = "idle" /\ call.name = "clear"

\* C19 as stated: after clear() the mode is 'none', and a tick that begins
\* while the mode is 'none' updates no line, does not autoscale or redraw and
\* raises no error of its own.
C19_TickBegunInNoneIsNoOp ==
    /\ Cleared => mode = "none"
    /\ tick.began = "none" => ~TickTouchesPlot

\* C19, amended: after clear() the mode is 'none', and a tick whose line 535
\* finds the mode 'none' (once its update_data() has returned) does nothing
\* more: no line handle, axes or PlotDict field is changed, no redraw is
\* requested and no exception is raised; the Table it stored is its only
\* effect.
C19_TickFindingNoneIsNoOp ==
    /\ [](Cleared => mode = "none")
    /\ [](tick.found = "none" =>
            /\ tick.log = <<Ev("update")>>
            /\ bgpc \in {"check", "closing", "done"}
            /\ bgerr = "none")
    /\ [][(bgpc = "dispatch" /\ bgpc' # "dispatch" /\ mode = "none") =>
            /\ bgpc' = "check"
            /\ UNCHANGED <<data, lines, axes, plotdict, mode, stopped, bgerr>>]_vars

\* after plot() and clear(), a tick has stored a Table with a new row and
\* found the mode 'none'
C19_Witness ==
    /\ Cleared
    /\ lines.filled # {}
    /\ tick.found = "none"
    /\ bgpc = "check"
    /\ data = MaxRows

\* C20: a tick's update of a line whose series, window size and transform
\* are those of the draw sets the x data and the y data of the line to what
\* the draw displayed.
C20_UpdateRedrawsTheSame ==
    line.updated => (line.xdata = line.first[1] /\ line.ydata = line.first[2])

\* the calls that store keys of the PlotDict
Writers == {"plot", "autoscale"}

\* C21: no step of the engine's thread, in either mode and whether the tick
\* goes on or raises, changes a field of the PlotDict; a step that changes one
\* is a step of a foreground plot() or autoscale() call, and leaves the thread
\* where it is.
C21_OnlyForegroundWritesPlotDict ==
    [][plotdict' # plotdict =>
          /\ UNCHANGED bgvars
          /\ fgpc \in {"idle", "plot_draw", "autoscale_y"}
          /\ call.name \in Writers \/ call'.name \in Writers]_vars

\* a tick in mode 'plot' has updated its lines and autoscaled, on a PlotDict
\* that plot() and autoscale() have written
C21_Witness ==
    /\ bgpc = "draw"
    /\ tick.found = "plot"
    /\ plotdict.set
    /\ ~plotdict.autoscalex

\* plot() was called with xtrans and ytrans left as None
NoTransforms == series.xtrans = "None" /\ series.ytrans = "None"

\* C22: after plot() without transforms, the tick's update of a line does not
\* raise, and sets the line's y data to the untransformed trailing window of
\* its series, as the initial draw does.
C22_AbsentTransformIsIdentityInTick ==
    (line.drawn /\ NoTransforms) =>
        /\ line.err # "TypeError"
        /\ line.updated =>
              line.ydata = Trailing(series.y, plotdict.windowsize)

\* the one stop() call of the engine's lifetime has returned
StoppedOnce == interactive /\ stops = 1 /\ fgpc = "idle"

\* C23: over the lifetime of an interactive engine that is started and then
\* stopped once with stop(), the DataSource is closed exactly once: the exit
\* of the loop and stop() do not both close it.
C23_ClosedExactlyOnce == StoppedOnce => closes = 1

\* the step of line 534: the tick calls the DataSource's update()
CallsUpdate == bgpc = "update" /\ bgpc' # "update"

\* C24: update() is never called on a DataSource that has been closed, in any
\* interleaving of the loop with the foreground's stop() and close() calls,
\* close() called while the loop runs included.
C24_NoUpdateAfterClose == [][CallsUpdate => closes = 0]_vars

=============================================================================
